---- MODULE Spec2Model ----
(***************************************************************************)
(* Model of android/app/src/main/cpp/native-lib.cpp: the JNI bridge        *)
(* Java_com_landseek_amphibian_service_AmphibianNative_startNode, which    *)
(* marshals a Java String[] into argc/argv and calls node::Start.          *)
(*                                                                         *)
(* One activation of startNode per thread; every source line that changes  *)
(* state is one action.  Native memory is one process heap shared by all   *)
(* threads: a finite function from addresses to cells.  A Java string is   *)
(* the sequence of its UTF-16 code units, a native buffer the sequence of  *)
(* its bytes (terminator included).                                        *)
(***************************************************************************)
EXTENDS Integers, Sequences, FiniteSets, TLC

\* Bound of the model: the longest String[] the generated inputs hold.
MaxArgs == 2

\* Threads on which the managed runtime may call startNode.
Threads == {"t1", "t2"}

\* The null Java reference (a jstring that refers to no String).
NullRef == <<-1>>

\* The null native pointer.
NullPtr == 0

\* Java strings, each the sequence of its UTF-16 code units: "--flag" and
\* "value" (one byte per unit), U+00E9 U+20AC (two and three bytes), "A\0B"
\* (NUL inside the string), and "a".."z", too long for std::string's
\* small-string storage.
Flag == <<45, 45, 102, 108, 97, 103>>
Value == <<118, 97, 108, 117, 101>>
Accent == <<233, 8364>>
InnerNul == <<65, 0, 66>>
LongArg == [k \in 1..26 |-> 96 + k]

JavaStrings == {<<>>, Flag, Value, Accent, InnerNul, LongArg}

\* Values node::Start may return (an int).
ExitCodes == {-1, 0, 1, 2147483647}

\* What an indeterminate std::string may turn out to hold.
Indeterminate == {<<0>>, <<63, 0>>}

RECURSIVE SeqsUpTo(_, _)
SeqsUpTo(S, n) ==
    IF n = 0 THEN {<<>>}
    ELSE LET shorter == SeqsUpTo(S, n - 1)
         IN  shorter \cup {Append(s, x) : s \in {q \in shorter : Len(q) = n - 1}, x \in S}

\* An element of the String[]: a String or null.
JavaElems == JavaStrings \cup {NullRef}

\* The String[] values startNode is called with.
JavaArrays == SeqsUpTo(JavaElems, MaxArgs)

\* The inputs of the two-caller specification.
ConcArrays == { <<>>, <<Accent>>, <<NullRef>> }

----------------------------------------------------------------------------
\* Pure functions.

\* Modified UTF-8 of one UTF-16 code unit, as GetStringUTFChars encodes it:
\* NUL is the two bytes C0 80, so the buffer holds no zero byte but its
\* terminator.
ModifiedUTF8Unit(c) ==
    IF c >= 1 /\ c <= 127 THEN <<c>>
    ELSE IF c <= 2047 THEN <<192 + (c \div 64), 128 + (c % 64)>>
    ELSE <<224 + (c \div 4096), 128 + ((c \div 64) % 64), 128 + (c % 64)>>

RECURSIVE ModifiedUTF8(_)
ModifiedUTF8(s) ==
    IF s = <<>> THEN <<>>
    ELSE ModifiedUTF8Unit(Head(s)) \o ModifiedUTF8(Tail(s))

\* The buffer GetStringUTFChars hands out: the bytes and a terminator.
UTFBuffer(s) == ModifiedUTF8(s) \o <<0>>

\* strlen: the number of bytes before the first zero byte.
CStrLen(bytes) ==
    (CHOOSE k \in 1..Len(bytes) :
        bytes[k] = 0 /\ \A j \in 1..(k - 1) : bytes[j] # 0) - 1

\* std::string(const char*) followed by c_str(): the bytes up to the first
\* zero byte, and a terminator.
StdString(bytes) == SubSeq(bytes, 1, CStrLen(bytes)) \o <<0>>

\* A loop that stops one element early.
LoopCondShort(k, n) == k < n - 1

\* A loop that runs one element too far.
LoopCondInclusive(k, n) == k <= n

\* The loop condition of both for loops.
LoopCond(k, n) == k < n

\* JNI GetObjectArrayElement: the element, or null outside the array.
ArrayElement(arr, k) ==
    IF k + 1 \in DOMAIN arr THEN arr[k + 1] ELSE NullRef

\* A return that keeps only the low byte, as a process exit status would.
ReturnValueLowByte(r) == r % 256

\* The value startNode returns, given node::Start's result.
ReturnValue(r) == r

----------------------------------------------------------------------------
\* The heap.

RECURSIVE Fresh(_, _)
\* The n smallest addresses not in use, in increasing order.
Fresh(used, n) ==
    IF n = 0 THEN <<>>
    ELSE LET a == CHOOSE x \in 1..(Cardinality(used) + 1) :
                      x \notin used /\ \A y \in 1..(x - 1) : y \in used
         IN  <<a>> \o Fresh(used \cup {a}, n - 1)

Cell(t, kind, bytes) == [owner |-> t, kind |-> kind, bytes |-> bytes]

Alloc(h, a, cell) ==
    [x \in DOMAIN h \cup {a} |-> IF x = a THEN cell ELSE h[x]]

Free(h, S) == [x \in DOMAIN h \ S |-> h[x]]

Range(s) == {s[k] : k \in DOMAIN s}

EmptyVec == [cap |-> 0, elems |-> <<>>]

\* std::vector growth: the new capacity when a push_back finds it full.
Grow(cap) == IF cap = 0 THEN 1 ELSE 2 * cap

\* The longest string std::string keeps inside the string object itself
\* (small-string storage); a longer one has a heap buffer of its own.
SSOCapacity == 15

\* Whether the string whose buffer is at a lives in small-string storage.
\* The bytes include the terminator.
IsSmall(h, a) == a \notin DOMAIN h \/ Len(h[a].bytes) - 1 <= SSOCapacity

\* args.push_back(std::string): the new element's buffer is allocated; when
\* the vector is full its elements are first moved to new storage.  Moving
\* a small string copies its bytes into the new element, so its buffer gets
\* a new address and the old one goes with the old storage; moving a long
\* string hands its heap buffer over, which stays where it is.
PushBackString(h, v, t, bytes) ==
    LET n == Len(v.elems) IN
    IF n < v.cap
    THEN LET a == Fresh(DOMAIN h, 1)[1]
         IN  [heap |-> Alloc(h, a, Cell(t, "str", bytes)),
              vec  |-> [v EXCEPT !.elems = Append(@, a)]]
    ELSE LET moving  == {k \in 1..n : IsSmall(h, v.elems[k])}
             rank(k) == Cardinality({j \in moving : j <= k})
             new     == Fresh(DOMAIN h, Cardinality(moving) + 1)
             place(k) == IF k = n + 1 THEN new[Cardinality(moving) + 1]
                         ELSE IF k \in moving THEN new[rank(k)]
                         ELSE v.elems[k]
             content(k) == IF k = n + 1 THEN bytes
                           ELSE IF v.elems[k] \in DOMAIN h THEN h[v.elems[k]].bytes
                           ELSE <<0>>
             h1 == [x \in DOMAIN h \cup Range(new) |->
                      IF x \in Range(new)
                      THEN Cell(t, "str",
                                content(CHOOSE k \in moving \cup {n + 1} : place(k) = x))
                      ELSE h[x]]
         IN  [heap |-> Free(h1, {v.elems[k] : k \in moving}),
              vec  |-> [cap |-> Grow(v.cap),
                        elems |-> [k \in 1..(n + 1) |-> place(k)]]]

EmptyPtrVec == [cap |-> 0, data |-> NullPtr, size |-> 0]

\* argv.push_back(char*): the pointer is stored in the vector's array; when
\* the array is full a larger one is allocated, the entries are copied and
\* the old array is released.
PushBackPtr(h, v, t, p) ==
    IF v.size < v.cap
    THEN [heap |-> [h EXCEPT ![v.data].bytes = Append(@, p)],
          vec  |-> [v EXCEPT !.size = @ + 1]]
    ELSE LET a   == Fresh(DOMAIN h, 1)[1]
             old == IF v.data \in DOMAIN h THEN h[v.data].bytes ELSE <<>>
         IN  [heap |-> Free(Alloc(h, a, Cell(t, "argv", Append(old, p))), {v.data}),
              vec  |-> [cap |-> Grow(v.cap), data |-> a, size |-> v.size + 1]]

----------------------------------------------------------------------------
\* State.

VARIABLES
    proc,       \* "running", or "aborted" once the process has been killed
    heap,       \* native memory: address -> cell
    pc,         \* per thread: "idle", the source line about to run, "inNode", "done"
                \* (returned, the caller not yet resumed)
    arguments,  \* per thread: the String[] of the current call
    argc, i, string, rawString, result,   \* per thread: the locals of startNode
    args,       \* per thread: std::vector<std::string>, by buffer address
    argv,       \* per thread: std::vector<char*>
    ret,        \* per thread: the value the call returned, once it is "done"
    events,     \* per thread: what the current call has done so far, in order
    earlier     \* per thread: whether a call completed before the current one

vars == <<proc, heap, pc, arguments, argc, i, string, rawString, result,
          args, argv, ret, events, earlier>>

Init ==
    /\ proc = "running"
    /\ heap = <<>>
    /\ pc = [t \in Threads |-> "idle"]
    /\ arguments = [t \in Threads |-> <<>>]
    /\ argc = [t \in Threads |-> 0]
    /\ i = [t \in Threads |-> 0]
    /\ string = [t \in Threads |-> NullRef]
    /\ rawString = [t \in Threads |-> NullPtr]
    /\ result = [t \in Threads |-> 0]
    /\ args = [t \in Threads |-> EmptyVec]
    /\ argv = [t \in Threads |-> EmptyPtrVec]
    /\ ret = [t \in Threads |-> 0]
    /\ events = [t \in Threads |-> <<>>]
    /\ earlier = [t \in Threads |-> FALSE]

Event(e, n) == [ev |-> e, n |-> n]

Log(t, e, n) == events' = [events EXCEPT ![t] = Append(@, Event(e, n))]

\* The process is killed (a JNI abort, a fault): no thread runs any further.
Abort ==
    /\ proc' = "aborted"
    /\ UNCHANGED <<heap, pc, arguments, argc, i, string, rawString, result,
                   args, argv, ret, events, earlier>>

\* Where control goes once the first loop's condition fails: the second
\* loop starts at i = 0.
AfterConvert(n) == IF LoopCond(0, n) THEN "L31" ELSE "L34"

\* Lines 11-22: the call enters with a String[]; argc, args and argv are
\* constructed and the first loop's condition is tested.  The locals declared
\* further down (string, rawString, result) do not exist yet and hold their
\* placeholder values.
Call(t, arr) ==
    /\ proc = "running"
    /\ pc[t] = "idle"
    /\ arguments' = [arguments EXCEPT ![t] = arr]
    /\ argc' = [argc EXCEPT ![t] = Len(arr)]
    /\ args' = [args EXCEPT ![t] = EmptyVec]
    /\ argv' = [argv EXCEPT ![t] = EmptyPtrVec]
    /\ i' = [i EXCEPT ![t] = 0]
    /\ string' = [string EXCEPT ![t] = NullRef]
    /\ rawString' = [rawString EXCEPT ![t] = NullPtr]
    /\ result' = [result EXCEPT ![t] = 0]
    /\ events' = [events EXCEPT ![t] = <<>>]
    /\ pc' = [pc EXCEPT ![t] = IF LoopCond(0, Len(arr)) THEN "L23" ELSE AfterConvert(Len(arr))]
    /\ UNCHANGED <<proc, heap, ret, earlier>>

\* Line 23: string = GetObjectArrayElement(arguments, i).
GetObjectArrayElement(t) ==
    /\ proc = "running"
    /\ pc[t] = "L23"
    /\ string' = [string EXCEPT ![t] = ArrayElement(arguments[t], i[t])]
    /\ Log(t, "get", i[t])
    /\ pc' = [pc EXCEPT ![t] = "L24"]
    /\ UNCHANGED <<proc, heap, arguments, argc, i, rawString, result, args, argv,
                   ret, earlier>>

\* Line 24 with a fail-fast path: when the conversion yields null the call
\* gives up and returns -1.
GetStringUTFCharsFailFast(t) ==
    /\ proc = "running"
    /\ pc[t] = "L24"
    /\ \/ /\ string[t] # NullRef
          /\ LET a == Fresh(DOMAIN heap, 1)[1] IN
             /\ heap' = Alloc(heap, a, Cell(t, "utf", UTFBuffer(string[t])))
             /\ rawString' = [rawString EXCEPT ![t] = a]
             /\ Log(t, "utf", i[t])
          /\ pc' = [pc EXCEPT ![t] = "L25"]
          /\ UNCHANGED <<proc, arguments, argc, i, string, result, args, argv,
                         ret, earlier>>
       \/ /\ events' = [events EXCEPT ![t] =
                 @ \o <<Event("utf_null", i[t]), Event("return", -1)>>]
          /\ ret' = [ret EXCEPT ![t] = -1]
          /\ heap' = Free(heap, Range(args[t].elems))
          /\ args' = [args EXCEPT ![t] = EmptyVec]
          /\ string' = [string EXCEPT ![t] = NullRef]
          /\ pc' = [pc EXCEPT ![t] = "done"]
          /\ UNCHANGED <<proc, arguments, argc, i, rawString, result, argv, earlier>>

\* Line 24: rawString = GetStringUTFChars(string, 0).  On a String the
\* runtime allocates the buffer, or fails (out of memory) and yields null;
\* on a null reference it aborts the process or yields null.
GetStringUTFChars(t) ==
    /\ proc = "running"
    /\ pc[t] = "L24"
    /\ \/ /\ string[t] # NullRef
          /\ LET a == Fresh(DOMAIN heap, 1)[1] IN
             /\ heap' = Alloc(heap, a, Cell(t, "utf", UTFBuffer(string[t])))
             /\ rawString' = [rawString EXCEPT ![t] = a]
             /\ Log(t, "utf", i[t])
          /\ pc' = [pc EXCEPT ![t] = "L25"]
          /\ UNCHANGED <<proc, arguments, argc, i, string, result, args, argv,
                         ret, earlier>>
       \/ /\ rawString' = [rawString EXCEPT ![t] = NullPtr]
          /\ Log(t, "utf_null", i[t])
          /\ pc' = [pc EXCEPT ![t] = "L25"]
          /\ UNCHANGED <<proc, heap, arguments, argc, i, string, result, args,
                         argv, ret, earlier>>
       \/ /\ string[t] = NullRef
          /\ Abort

\* Line 25: args.push_back(std::string(rawString)).  Reading through a
\* null (or released) rawString is undefined: the process faults, or the
\* string gets indeterminate contents.
PushBackArg(t) ==
    /\ proc = "running"
    /\ pc[t] = "L25"
    /\ \/ /\ \E bytes \in (IF rawString[t] \in DOMAIN heap
                           THEN {StdString(heap[rawString[t]].bytes)}
                           ELSE Indeterminate) :
               LET r == PushBackString(heap, args[t], t, bytes) IN
               /\ heap' = r.heap
               /\ args' = [args EXCEPT ![t] = r.vec]
          /\ Log(t, "copy", i[t])
          /\ pc' = [pc EXCEPT ![t] = "L26"]
          /\ UNCHANGED <<proc, arguments, argc, i, string, rawString, result,
                         argv, ret, earlier>>
       \/ /\ rawString[t] \notin DOMAIN heap
          /\ Abort

\* Lines 26-27 without the release: the buffer is never given back.
ReleaseStringUTFCharsLeak(t) ==
    /\ proc = "running"
    /\ pc[t] = "L26"
    /\ Log(t, "release", i[t])
    /\ string' = [string EXCEPT ![t] = NullRef]
    /\ rawString' = [rawString EXCEPT ![t] = NullPtr]
    /\ i' = [i EXCEPT ![t] = IF LoopCond(i[t] + 1, argc[t]) THEN i[t] + 1 ELSE 0]
    /\ pc' = [pc EXCEPT ![t] = IF LoopCond(i[t] + 1, argc[t]) THEN "L23"
                               ELSE AfterConvert(argc[t])]
    /\ UNCHANGED <<proc, heap, arguments, argc, result, args, argv, ret, earlier>>

\* Lines 26-27, 22 and 30: ReleaseStringUTFChars(string, rawString); the
\* loop body ends, so string and rawString cease to exist; then i++ and the
\* loop condition, and when it fails the second loop's own i starts at 0.
\* Releasing null chars does nothing; with a null string the runtime may
\* abort.
ReleaseStringUTFChars(t) ==
    /\ proc = "running"
    /\ pc[t] = "L26"
    /\ \/ /\ heap' = Free(heap, {rawString[t]})
          /\ Log(t, "release", i[t])
          /\ string' = [string EXCEPT ![t] = NullRef]
          /\ rawString' = [rawString EXCEPT ![t] = NullPtr]
          /\ i' = [i EXCEPT ![t] = IF LoopCond(i[t] + 1, argc[t]) THEN i[t] + 1 ELSE 0]
          /\ pc' = [pc EXCEPT ![t] = IF LoopCond(i[t] + 1, argc[t]) THEN "L23"
                                     ELSE AfterConvert(argc[t])]
          /\ UNCHANGED <<proc, arguments, argc, result, args, argv, ret, earlier>>
       \/ /\ string[t] = NullRef
          /\ Abort

\* Line 31 taking c_str() of a copy of args[i] that dies with the statement
\* (as a by-value range-for would): the entry refers to a released buffer.
BuildArgvFromCopy(t) ==
    /\ proc = "running"
    /\ pc[t] = "L31"
    /\ i[t] < Len(args[t].elems)
    /\ LET tmp == Fresh(DOMAIN heap, 1)[1]
           h1  == Alloc(heap, tmp, Cell(t, "str", heap[args[t].elems[i[t] + 1]].bytes))
           r   == PushBackPtr(h1, argv[t], t, tmp)
       IN  /\ heap' = Free(r.heap, {tmp})
           /\ argv' = [argv EXCEPT ![t] = r.vec]
    /\ Log(t, "c_str", i[t])
    /\ i' = [i EXCEPT ![t] = @ + 1]
    /\ pc' = [pc EXCEPT ![t] = IF LoopCond(i[t] + 1, argc[t]) THEN "L31" ELSE "L34"]
    /\ UNCHANGED <<proc, arguments, argc, string, rawString, result, args,
                   ret, earlier>>

\* Lines 31 and 30: argv.push_back(const_cast<char*>(args[i].c_str())),
\* then i++ and the loop condition.  args[i] past the end is undefined.
BuildArgv(t) ==
    /\ proc = "running"
    /\ pc[t] = "L31"
    /\ \/ /\ i[t] < Len(args[t].elems)
          /\ LET r == PushBackPtr(heap, argv[t], t, args[t].elems[i[t] + 1]) IN
             /\ heap' = r.heap
             /\ argv' = [argv EXCEPT ![t] = r.vec]
          /\ Log(t, "c_str", i[t])
          /\ i' = [i EXCEPT ![t] = @ + 1]
          /\ pc' = [pc EXCEPT ![t] = IF LoopCond(i[t] + 1, argc[t]) THEN "L31" ELSE "L34"]
          /\ UNCHANGED <<proc, arguments, argc, string, rawString, result, args,
                         ret, earlier>>
       \/ /\ i[t] >= Len(args[t].elems)
          /\ Abort

\* Line 34: LOGD("Starting Embedded Node.js...").
LogStarting(t) ==
    /\ proc = "running"
    /\ pc[t] = "L34"
    /\ Log(t, "log_start", 0)
    /\ pc' = [pc EXCEPT ![t] = "L35"]
    /\ UNCHANGED <<proc, heap, arguments, argc, i, string, rawString, result,
                   args, argv, ret, earlier>>

\* Line 35 starting the runtime without waiting for it: control goes on at
\* once, with a result of 0.
NodeStartDetached(t) ==
    /\ proc = "running"
    /\ pc[t] = "L35"
    /\ Log(t, "node_call", argc[t])
    /\ result' = [result EXCEPT ![t] = 0]
    /\ pc' = [pc EXCEPT ![t] = "L36"]
    /\ UNCHANGED <<proc, heap, arguments, argc, i, string, rawString, args,
                   argv, ret, earlier>>

\* Line 35, the call: node::Start(argc, argv.data()) is entered.
NodeStart(t) ==
    /\ proc = "running"
    /\ pc[t] = "L35"
    /\ Log(t, "node_call", argc[t])
    /\ pc' = [pc EXCEPT ![t] = "inNode"]
    /\ UNCHANGED <<proc, heap, arguments, argc, i, string, rawString, result,
                   args, argv, ret, earlier>>

\* Line 35 in a retry loop: a non-zero result starts the runtime again.
NodeReturnRetry(t, r) ==
    /\ proc = "running"
    /\ pc[t] = "inNode"
    /\ result' = [result EXCEPT ![t] = r]
    /\ Log(t, "node_ret", r)
    /\ pc' = [pc EXCEPT ![t] = IF r # 0 THEN "L35" ELSE "L36"]
    /\ UNCHANGED <<proc, heap, arguments, argc, i, string, rawString, args,
                   argv, ret, earlier>>

\* Line 35, the return: node::Start returns r, which initialises result.
NodeReturn(t, r) ==
    /\ proc = "running"
    /\ pc[t] = "inNode"
    /\ result' = [result EXCEPT ![t] = r]
    /\ Log(t, "node_ret", r)
    /\ pc' = [pc EXCEPT ![t] = "L36"]
    /\ UNCHANGED <<proc, heap, arguments, argc, i, string, rawString, args,
                   argv, ret, earlier>>

\* The second log line printing argc instead of result.
ExitLogCodeArgc(t) == argc[t]

\* The argument of the second log line's %d.
ExitLogCode(t) == result[t]

\* Line 36: LOGD("Node.js exited with code: %d", result).
LogExited(t) ==
    /\ proc = "running"
    /\ pc[t] = "L36"
    /\ Log(t, "log_exit", ExitLogCode(t))
    /\ pc' = [pc EXCEPT ![t] = "L38"]
    /\ UNCHANGED <<proc, heap, arguments, argc, i, string, rawString, result,
                   args, argv, ret, earlier>>

\* Lines 38-39 with buffers that outlive the call (never destroyed).
ReturnLeak(t) ==
    /\ proc = "running"
    /\ pc[t] = "L38"
    /\ ret' = [ret EXCEPT ![t] = ReturnValue(result[t])]
    /\ Log(t, "return", ReturnValue(result[t]))
    /\ args' = [args EXCEPT ![t] = EmptyVec]
    /\ argv' = [argv EXCEPT ![t] = EmptyPtrVec]
    /\ pc' = [pc EXCEPT ![t] = "done"]
    /\ UNCHANGED <<proc, heap, arguments, argc, i, string, rawString, result, earlier>>

\* Lines 38-39: return result; argv and args are destroyed, which releases
\* the pointer array and every backing string, and the locals cease to exist.
Return(t) ==
    /\ proc = "running"
    /\ pc[t] = "L38"
    /\ ret' = [ret EXCEPT ![t] = ReturnValue(result[t])]
    /\ Log(t, "return", ReturnValue(result[t]))
    /\ heap' = Free(heap, {argv[t].data} \cup Range(args[t].elems))
    /\ args' = [args EXCEPT ![t] = EmptyVec]
    /\ argv' = [argv EXCEPT ![t] = EmptyPtrVec]
    /\ pc' = [pc EXCEPT ![t] = "done"]
    /\ UNCHANGED <<proc, arguments, argc, i, string, rawString, result, earlier>>

\* The caller has taken the returned value; nothing of the call remains and
\* the thread may call again.
Resume(t) ==
    /\ proc = "running"
    /\ pc[t] = "done"
    /\ pc' = [pc EXCEPT ![t] = "idle"]
    /\ arguments' = [arguments EXCEPT ![t] = <<>>]
    /\ argc' = [argc EXCEPT ![t] = 0]
    /\ i' = [i EXCEPT ![t] = 0]
    /\ result' = [result EXCEPT ![t] = 0]
    /\ ret' = [ret EXCEPT ![t] = 0]
    /\ events' = [events EXCEPT ![t] = <<>>]
    /\ earlier' = [earlier EXCEPT ![t] = TRUE]
    /\ UNCHANGED <<proc, heap, string, rawString, args, argv>>

\* The managed caller invokes startNode with one of the given arrays.
Invoke(t, inputs) ==
    /\ pc[t] = "idle"
    /\ \E arr \in inputs : Call(t, arr)

\* The thread the single-caller specification uses.
MainThread == "t1"

\* One caller, every generated input, calls one after the other.
Next ==
    \/ Invoke(MainThread, JavaArrays)
    \/ GetObjectArrayElement(MainThread)
    \/ GetStringUTFChars(MainThread)
    \/ PushBackArg(MainThread)
    \/ ReleaseStringUTFChars(MainThread)
    \/ BuildArgv(MainThread)
    \/ LogStarting(MainThread)
    \/ NodeStart(MainThread)
    \/ \E r \in ExitCodes : NodeReturn(MainThread, r)
    \/ LogExited(MainThread)
    \/ Return(MainThread)
    \/ Resume(MainThread)

Spec == Init /\ [][Next]_vars

\* Two callers on two threads, interleaved, each calling again and again.
NextConc ==
    \E t \in Threads :
        \/ Invoke(t, ConcArrays)
        \/ GetObjectArrayElement(t)
        \/ GetStringUTFChars(t)
        \/ PushBackArg(t)
        \/ ReleaseStringUTFChars(t)
        \/ BuildArgv(t)
        \/ LogStarting(t)
        \/ NodeStart(t)
        \/ \E r \in ExitCodes : NodeReturn(t, r)
        \/ LogExited(t)
        \/ Return(t)
        \/ Resume(t)

SpecConc == Init /\ [][NextConc]_vars

----------------------------------------------------------------------------
\* Properties.

\* The entries of the pointer array argv.data() refers to.
ArgvEntries(t) ==
    IF argv[t].data \in DOMAIN heap THEN heap[argv[t].data].bytes ELSE <<>>

Indices(t, e) == {k \in DOMAIN events[t] : events[t][k].ev = e}

Count(t, e) == Cardinality(Indices(t, e))

\* The cells a thread's calls have allocated and not yet released.
Owned(t) == {a \in DOMAIN heap : heap[a].owner = t}

\* C1: whenever a call of startNode has returned, node::Start returned
\* exactly one value during it, and the value startNode returned is that value.
C1_PassThrough ==
    \A t \in Threads :
        pc[t] = "done" =>
            /\ Count(t, "node_ret") = 1
            /\ \A k \in Indices(t, "node_ret") : ret[t] = events[t][k].n

C1_Witness ==
    /\ pc[MainThread] = "done"
    /\ Len(arguments[MainThread]) = 2
    /\ ret[MainThread] = -1
    /\ \E k \in Indices(MainThread, "node_ret") : events[MainThread][k].n = -1

\* C2: when node::Start is called with an array of N strings, all of which
\* were converted, argc is N, the pointer array has N entries, and entry k
\* refers to a live buffer holding the modified UTF-8 bytes of element k and a
\* terminator, in the input's order.
C2_Marshalled ==
    \A t \in Threads :
        (pc[t] = "inNode" /\ Count(t, "utf_null") = 0) =>
            /\ argc[t] = Len(arguments[t])
            /\ \A k \in Indices(t, "node_call") : events[t][k].n = Len(arguments[t])
            /\ argv[t].size = Len(arguments[t])
            /\ Len(ArgvEntries(t)) = Len(arguments[t])
            /\ \A k \in 1..Len(arguments[t]) :
                   /\ k \in DOMAIN ArgvEntries(t)
                   /\ ArgvEntries(t)[k] \in DOMAIN heap
                   /\ heap[ArgvEntries(t)[k]].bytes = ModifiedUTF8(arguments[t][k]) \o <<0>>
            /\ (arguments[t] = <<Flag, Value>> =>
                   /\ heap[ArgvEntries(t)[1]].bytes = Flag \o <<0>>
                   /\ heap[ArgvEntries(t)[2]].bytes = Value \o <<0>>)

C2_Witness ==
    /\ pc[MainThread] = "inNode"
    /\ arguments[MainThread] = <<Accent, InnerNul>>
    /\ Count(MainThread, "utf_null") = 0
    /\ Len(ArgvEntries(MainThread)) = 2
    /\ heap[ArgvEntries(MainThread)[1]].bytes = <<195, 169, 226, 130, 172, 0>>
    /\ heap[ArgvEntries(MainThread)[2]].bytes = <<65, 192, 128, 66, 0>>

\* C3: in a call with an empty array no loop body runs (no element is
\* fetched, converted, copied, released, and no c_str() is taken), the
\* pointer array stays empty, the call holds no buffer, control is past both
\* loops, and once the call has returned node::Start was called with argc 0
\* and its value was returned.
C3_EmptyInput ==
    \A t \in Threads :
        (pc[t] # "idle" /\ arguments[t] = <<>>) =>
            /\ \A e \in {"get", "utf", "utf_null", "copy", "release", "c_str"} :
                   Count(t, e) = 0
            /\ argv[t] = EmptyPtrVec
            /\ args[t] = EmptyVec
            /\ Owned(t) = {}
            /\ pc[t] \in {"L34", "L35", "inNode", "L36", "L38", "done"}
            /\ pc[t] = "done" =>
                   /\ \E k \in Indices(t, "node_call") : events[t][k].n = 0
                   /\ \E k \in Indices(t, "node_ret") : events[t][k].n = ret[t]

C3_Witness ==
    /\ pc[MainThread] = "done"
    /\ arguments[MainThread] = <<>>
    /\ ret[MainThread] = 1
    /\ events[MainThread] =
           << Event("log_start", 0), Event("node_call", 0), Event("node_ret", 1),
              Event("log_exit", 1), Event("return", 1) >>

\* The lines at which the second loop has begun or ended and node::Start
\* has not yet returned.
PointersInUse == {"L31", "L34", "L35", "inNode"}

C4_State ==
    \A t \in Threads :
        /\ argv[t].size > 0 => Len(args[t].elems) = argc[t]
        /\ pc[t] \in PointersInUse \cup {"L36", "L38"} =>
               /\ Len(ArgvEntries(t)) = argv[t].size
               /\ \A k \in DOMAIN ArgvEntries(t) :
                      /\ ArgvEntries(t)[k] \in DOMAIN heap
                      /\ heap[ArgvEntries(t)[k]].owner = t
                      /\ heap[ArgvEntries(t)[k]].kind = "str"
                      /\ k \in DOMAIN args[t].elems
                      /\ ArgvEntries(t)[k] = args[t].elems[k]

C4_Step ==
    \A t \in Threads :
        /\ pc[t] \in PointersInUse \cup {"L36"} =>
               /\ args'[t] = args[t]
               /\ \A a \in Range(args[t].elems) :
                      a \in DOMAIN heap' /\ heap'[a] = heap[a]
        /\ \A a \in Range(args[t].elems) :
               (pc[t] \in PointersInUse \cup {"L36", "L38"} /\ a \notin DOMAIN heap') =>
                   pc[t] = "L38" /\ pc'[t] = "done"

\* C4: a pointer is put into argv only once args has its final length N;
\* from then until node::Start has returned every entry of the pointer array
\* is the buffer of the corresponding element of args, live and owned by the
\* call; in that time no step changes args or changes, moves or releases a
\* backing string; and a backing string is released only by the step that
\* returns from startNode.
C4_PointersLive == [](C4_State) /\ [][C4_Step]_vars

C4_Witness ==
    /\ pc[MainThread] = "inNode"
    /\ argc[MainThread] = 2
    /\ arguments[MainThread] = <<Flag, Value>>
    /\ args[MainThread].cap = 2
    /\ Len(ArgvEntries(MainThread)) = 2
    /\ ArgvEntries(MainThread) = args[MainThread].elems
    /\ \A k \in 1..2 : ArgvEntries(MainThread)[k] \in DOMAIN heap

\* C5: while node::Start runs the call does nothing else (its last event is
\* the call of node::Start), and startNode returns only after node::Start
\* was called and then returned.
C5_Blocking ==
    \A t \in Threads :
        /\ pc[t] = "inNode" => events[t][Len(events[t])].ev = "node_call"
        /\ \A l \in Indices(t, "return") :
               \E j \in Indices(t, "node_call") : \E k \in Indices(t, "node_ret") :
                   j < k /\ k < l
        /\ pc[t] = "done" => Count(t, "return") = 1

C5_Witness ==
    /\ pc[MainThread] = "done"
    /\ Len(arguments[MainThread]) = 1
    /\ \E k \in Indices(MainThread, "node_ret") :
           /\ events[MainThread][k].n = 1
           /\ events[MainThread][k - 1].ev = "node_call"

\* C6: node::Start is called at most once per call of startNode, exactly
\* once in a call that has got past it, and whatever it returned the call
\* goes on the same way: the events from its call on are the call, its return
\* of r, the exit log line and the return.
C6_ExactlyOnce ==
    \A t \in Threads :
        /\ Count(t, "node_call") <= 1
        /\ Count(t, "node_ret") <= Count(t, "node_call")
        /\ pc[t] \in {"inNode", "L36", "L38", "done"} => Count(t, "node_call") = 1
        /\ pc[t] \in {"L36", "L38", "done"} => Count(t, "node_ret") = 1
        /\ pc[t] = "done" =>
               \A j \in Indices(t, "node_call") :
                   /\ Len(events[t]) = j + 3
                   /\ events[t][j + 1].ev = "node_ret"
                   /\ events[t][j + 2].ev = "log_exit"
                   /\ events[t][j + 3].ev = "return"

C6_Witness ==
    /\ pc[MainThread] = "done"
    /\ ret[MainThread] = -1
    /\ Count(MainThread, "node_call") = 1
    /\ Count(MainThread, "node_ret") = 1

\* The events at which GetObjectArrayElement yielded a null reference.
NullGets(t) ==
    {k \in Indices(t, "get") :
        ArrayElement(arguments[t], events[t][k].n) = NullRef}

\* C7: when GetObjectArrayElement yields null the call is next at line 24
\* with the null reference and the next thing it does is GetStringUTFChars on
\* it; when GetStringUTFChars yields null the call is next at line 25 with
\* the null pointer, the next thing it does is the copy from it, and a call
\* in which a conversion failed can return only as every call does: after
\* node::Start was called with argc, with the value node::Start returned.
C7_NoErrorPath ==
    \A t \in Threads :
      /\ \A k \in NullGets(t) :
            /\ k = Len(events[t]) => pc[t] = "L24" /\ string[t] = NullRef
            /\ k < Len(events[t]) => events[t][k + 1] = Event("utf_null", events[t][k].n)
      /\ \A k \in Indices(t, "utf_null") :
            /\ k = Len(events[t]) => pc[t] = "L25" /\ rawString[t] = NullPtr
            /\ k < Len(events[t]) => events[t][k + 1] = Event("copy", events[t][k].n)
            /\ \A l \in Indices(t, "return") :
                   /\ \E j \in Indices(t, "node_call") :
                          /\ k < j /\ j < l
                          /\ events[t][j].n = argc[t]
                   /\ \E j \in Indices(t, "node_ret") :
                          /\ j < l
                          /\ events[t][l].n = events[t][j].n
                          /\ ret[t] = events[t][j].n

C7_Witness ==
    /\ pc[MainThread] = "done"
    /\ arguments[MainThread] = <<Flag, Value>>
    /\ Indices(MainThread, "utf_null") = {6}
    /\ ret[MainThread] = 0

C8_State ==
    \A t \in Threads :
        /\ pc[t] \in {"idle", "done"} => Owned(t) = {}
        /\ rawString[t] # NullPtr =>
               rawString[t] \in Owned(t) /\ heap[rawString[t]].kind = "utf"
        /\ Range(args[t].elems) \subseteq Owned(t)
        /\ argv[t].data # NullPtr => argv[t].data \in Owned(t)
        /\ Range(ArgvEntries(t)) \subseteq Owned(t)
        /\ Owned(t) \subseteq
               {rawString[t], argv[t].data} \cup Range(args[t].elems)
        /\ pc[t] = "inNode" =>
               /\ Len(args[t].elems) = argc[t]
               /\ Len(ArgvEntries(t)) = argc[t]
               /\ ArgvEntries(t) = args[t].elems

\* The threads that take a step: every action changes its thread's pc.
Acting == {t \in Threads : pc'[t] # pc[t]}

C8_Step ==
    /\ \A a \in DOMAIN heap :
           (a \notin DOMAIN heap' \/ heap'[a] # heap[a]) => heap[a].owner \in Acting
    /\ \A a \in DOMAIN heap' :
           (a \notin DOMAIN heap \/ heap'[a] # heap[a]) => heap'[a].owner \in Acting
    /\ \A t \in Threads :
           t \notin Acting => args'[t] = args[t] /\ argv'[t] = argv[t]

\* C8: a thread outside a call owns no buffer; every buffer a call refers
\* to (the UTF chars, the backing strings, the pointer array and its entries)
\* is one the same call allocated, and a call's buffers are exactly those;
\* when node::Start is called the backing strings and the pointer array have
\* exactly argc entries, also in a later call; and a step creates, changes
\* or releases only buffers of the thread that takes it.
C8_Exclusive == [](C8_State) /\ [][C8_Step]_vars

C8_Witness ==
    /\ pc["t1"] = "inNode" /\ pc["t2"] = "inNode"
    /\ earlier["t1"] /\ earlier["t2"]
    /\ Len(ArgvEntries("t1")) = 1 /\ Len(ArgvEntries("t2")) = 1
    /\ ArgvEntries("t1")[1] > ArgvEntries("t2")[1]

MarshalEvents == {"get", "utf", "utf_null", "copy", "release", "c_str"}

\* The events of a call from the first log line on.
Tail5(t) ==
    LET IsLate(e) == e.ev \notin MarshalEvents IN SelectSeq(events[t], IsLate)

\* C9: the marshalling events of a call all come before its other events;
\* those are, in order, the "starting" line, the call of node::Start, its
\* return of some r, the "exited with code" line showing r, and the return
\* of r; the "starting" line is logged with all argc pointers in place; a
\* call that has returned has all five.
C9_LogOrder ==
    \A t \in Threads :
        /\ \A k \in DOMAIN events[t] :
               events[t][k].ev \in MarshalEvents =>
                   \A j \in 1..k : events[t][j].ev \in MarshalEvents
        /\ Len(Tail5(t)) <= 5
        /\ Len(Tail5(t)) >= 1 =>
               /\ Tail5(t)[1] = Event("log_start", 0)
               /\ argv[t].size = argc[t] \/ pc[t] = "done"
               /\ Count(t, "c_str") = argc[t]
        /\ Len(Tail5(t)) >= 2 => Tail5(t)[2] = Event("node_call", argc[t])
        /\ Len(Tail5(t)) >= 3 => Tail5(t)[3].ev = "node_ret"
        /\ Len(Tail5(t)) >= 4 => Tail5(t)[4] = Event("log_exit", Tail5(t)[3].n)
        /\ Len(Tail5(t)) >= 5 =>
               /\ Tail5(t)[5] = Event("return", Tail5(t)[3].n)
               /\ ret[t] = Tail5(t)[3].n
        /\ pc[t] = "done" => Len(Tail5(t)) = 5
        /\ Count(t, "log_start") + Count(t, "log_exit") <= 2

C9_Witness ==
    /\ pc[MainThread] = "done"
    /\ argc[MainThread] = 2
    /\ ret[MainThread] = 0
    /\ Tail5(MainThread) =
           << Event("log_start", 0), Event("node_call", 2), Event("node_ret", 0),
              Event("log_exit", 0), Event("return", 0) >>

\* The foreign-runtime buffers a call holds.
UTFCells(t) == {a \in Owned(t) : heap[a].kind = "utf"}

\* C10: a call holds at most one GetStringUTFChars buffer, only between
\* lines 24 and 26, and it is the one rawString refers to; each acquisition
\* is followed by the copy and then by the release of the same element, each
\* element is released once, and all that before the next element is fetched;
\* no such buffer is held when node::Start is called or later; and the
\* entries of the pointer array refer to backing strings only.
C10_UTFBuffers ==
    \A t \in Threads :
        /\ Cardinality(UTFCells(t)) <= 1
        /\ UTFCells(t) \subseteq {rawString[t]}
        /\ UTFCells(t) # {} => pc[t] \in {"L25", "L26"}
        /\ \A k \in Indices(t, "utf") :
               /\ k = Len(events[t]) => UTFCells(t) = {rawString[t]}
               /\ k + 1 <= Len(events[t]) =>
                      events[t][k + 1] = Event("copy", events[t][k].n)
               /\ k + 2 <= Len(events[t]) =>
                      events[t][k + 2] = Event("release", events[t][k].n)
        /\ UTFCells(t) # {} =>
               \E k \in Indices(t, "utf") : k >= Len(events[t]) - 1
        /\ \A k \in Indices(t, "get") :
               \A j \in Indices(t, "utf") : j < k => j + 2 < k
        /\ \A j, k \in Indices(t, "release") :
               events[t][j].n = events[t][k].n => j = k
        /\ \A k \in DOMAIN ArgvEntries(t) :
               ArgvEntries(t)[k] \in DOMAIN heap =>
                   heap[ArgvEntries(t)[k]].kind = "str"

C10_Witness ==
    /\ pc[MainThread] = "inNode"
    /\ argc[MainThread] = 2
    /\ Count(MainThread, "utf") = 2
    /\ Count(MainThread, "release") = 2
    /\ UTFCells(MainThread) = {}
    /\ Len(ArgvEntries(MainThread)) = 2

====
